---- MODULE Spec2Model ----
(***************************************************************************)
(* Model of pkg/tls/tlsmanager.go: the TLS Manager (registry of            *)
(* certificate stores and TLS options), its reload operation               *)
(* UpdateConfigs, the Get/GetStore readers, and the two handshake hooks    *)
(* (GetConfigForClient, GetCertificate) that Get attaches.                  *)
(*                                                                         *)
(* The specifications of the module:                                        *)
(*   Spec        the Manager with one reloading thread and two handshake    *)
(*               threads, at the granularity of the lock and map accesses;  *)
(*   SpecStore   buildCertificateStore and the default-certificate loop of  *)
(*               the certificate hook, as functions of their inputs;        *)
(*   SpecCipher  the GetConfigForClient hook, as a function of the          *)
(*               configured and the advertised cipher suites.               *)
(*   SpecClone   connections that change the cipher list of the             *)
(*               configuration the hook returned to them;                   *)
(*   SpecHook    the GetCertificate hook, as a function of the store, the   *)
(*               options, the hello and the ALPN provider's answer;         *)
(*   SpecOptions buildTLSConfig, as a function of the Options;              *)
(*   SpecReload  whole UpdateConfigs calls repeated with the same input.    *)
(***************************************************************************)
EXTENDS Integers, Sequences, FiniteSets, TLC

VARIABLES
    \* ---- Manager fields (tlsmanager.go:23-30)
    configs,        \* m.configs: options name -> Options
    storesConfig,   \* m.storesConfig: store name -> Store definition
    certs,          \* m.certs: sequence of CertAndStores
    stores,         \* m.stores: store name -> reference to a CertificateStore
    heap,           \* the CertificateStore objects, by reference
    lock,           \* m.lock: [w |-> writer holds it, r |-> number of readers]
    \* ---- the thread running UpdateConfigs
    pcw,            \* its position
    \* ---- the handshake threads running Get / GetStore and the hooks
    pc,             \* position of each thread
    call,           \* arguments of the call in progress
    config,         \* local config, ok := m.configs[configName]
    found,          \* local ok of getStore
    store,          \* resolved store reference (0: none yet)
    res,            \* outcome of the last GetCertificate hook call
    ret,            \* what Get returned: the configuration and the error
    fatal,          \* the runtime aborted the process (concurrent map access)
    \* ---- SpecStore
    tlsStore,       \* the Store definition given to buildCertificateStore
    built,          \* what buildCertificateStore returned
    pick,           \* what the default-certificate loop returned
    \* ---- SpecCipher
    base,           \* tlsConfig.CipherSuites
    helloSuites,    \* clientHello.CipherSuites
    conn,           \* CipherSuites of the configuration the hook returned
    configured,     \* the cipher suites buildTLSConfig put in tlsConfig
    held,           \* the configuration each connection got from the hook
    \* ---- SpecHook
    hookArgs,       \* what a GetCertificate hook closes over and is called with
    hookRes,        \* what it returned
    \* ---- SpecOptions
    optionArg,      \* the Options given to buildTLSConfig
    builtConf,      \* what buildTLSConfig returned
    \* ---- SpecReload
    once,           \* what the registry showed after the last new UpdateConfigs
    env,            \* that call: its arguments, and what could be generated
    nth             \* how many times in a row the call has been made

mgrVars == <<configs, storesConfig, certs, stores, heap, lock, pcw,
             pc, call, config, found, store, res, ret, fatal>>
storeVars == <<tlsStore, built, pick>>
cipherVars == <<base, helloSuites, conn, configured, held>>
hookVars == <<hookArgs, hookRes>>
optionVars == <<optionArg, builtConf>>
reloadVars == <<once, env, nth>>
vars == <<mgrVars, storeVars, cipherVars, hookVars, optionVars, reloadVars>>

-----------------------------------------------------------------------------
(* Bounds *)

\* longest DefaultCertificates list of a Store definition
MaxDefaults == 2
\* longest configured cipher suite list
MaxCiphers == 4

-----------------------------------------------------------------------------
(* Certificates and key algorithms *)

RSA == "RSA"
EC == "EC"

\* A configured certificate is named by what loading it yields: a key pair of
\* type RSA or EC, a key pair whose type cannot be detected ("Unk"), or an
\* unreadable / unparsable file ("Bad").
CertKinds == {RSA, EC, "Unk", "Bad"}
NoCert == "nil"

\* A loaded certificate: its key type, and whether it was generated.
Cert(kind, gen) == [kind |-> kind, gen |-> gen]

\* certificate.GetCertificateType: the type, or an error.
GetCertificateType(cert) ==
    IF cert.kind \in {RSA, EC} THEN [type |-> cert.kind, err |-> FALSE]
    ELSE [type |-> RSA, err |-> TRUE]

\* generate.DefaultCertificate(type): g[type] tells whether generation succeeds
GenOutcomes == [{RSA, EC} -> BOOLEAN]
DefaultCertificate(type, g) ==
    IF g[type] THEN [cert |-> Cert(type, TRUE), err |-> FALSE]
    ELSE [cert |-> NoCert, err |-> TRUE]

\* buildDefaultCertificate: reads the files and parses the key pair
buildDefaultCertificate(c) ==
    IF c = "Bad" THEN [cert |-> NoCert, err |-> TRUE]
    ELSE [cert |-> Cert(c, FALSE), err |-> FALSE]

\* buildDefaultCertificates: every certificate in order, the first error aborts
buildDefaultCertificates(cs) ==
    IF \E i \in 1..Len(cs) : buildDefaultCertificate(cs[i]).err
    THEN [certs |-> <<>>, err |-> TRUE]
    ELSE [certs |-> [i \in 1..Len(cs) |-> buildDefaultCertificate(cs[i]).cert],
          err |-> FALSE]

\* NewCertificateStore() followed by DynamicCerts.Set(empty map)
NewCertificateStore == [DynamicCerts |-> {}, DefaultCertificates |-> <<>>]

\* the loop "check if an existing RSA certificate was added"
hasRSAScan_SkipTypeTest(defaults) ==
    \E i \in 1..Len(defaults) : ~GetCertificateType(defaults[i]).err

hasRSAScan(defaults) ==
    \E i \in 1..Len(defaults) :
        /\ ~GetCertificateType(defaults[i]).err
        /\ GetCertificateType(defaults[i]).type = RSA

\* the branch "No default certificates configured, generating"
generateDefaults_OnlyRSA(g) ==
    IF ~g[RSA] \/ ~g[EC] THEN [certs |-> <<>>, err |-> TRUE]
    ELSE [certs |-> <<Cert(RSA, TRUE)>>, err |-> FALSE]

generateDefaults_TwoRSA(g) ==
    IF ~g[RSA] \/ ~g[EC] THEN [certs |-> <<>>, err |-> TRUE]
    ELSE [certs |-> <<Cert(RSA, TRUE), Cert(RSA, TRUE)>>, err |-> FALSE]

generateDefaults(g) ==
    IF DefaultCertificate(RSA, g).err THEN [certs |-> <<>>, err |-> TRUE]
    ELSE IF DefaultCertificate(EC, g).err THEN [certs |-> <<>>, err |-> TRUE]
    ELSE [certs |-> <<DefaultCertificate(RSA, g).cert, DefaultCertificate(EC, g).cert>>,
          err |-> FALSE]

\* A Store definition
StoreDef(list, single) == [DefaultCertificates |-> list, DefaultCertificate |-> single]
EmptyStoreDef == StoreDef(<<>>, NoCert)

\* buildCertificateStore(ctx, tlsStore): the store and the error it returns
buildCertificateStore(def, g) ==
    LET s0 == NewCertificateStore
        first ==
            IF Len(def.DefaultCertificates) > 0
            THEN LET r == buildDefaultCertificates(def.DefaultCertificates)
                 IN  [certs |-> r.certs, err |-> r.err, hasRSA |-> FALSE]
            ELSE IF def.DefaultCertificate # NoCert
            THEN LET r == buildDefaultCertificate(def.DefaultCertificate)
                 IN  [certs |-> IF r.err THEN <<>> ELSE <<r.cert>>, err |-> r.err,
                      hasRSA |-> FALSE]
            ELSE LET r == generateDefaults(g)
                 IN  [certs |-> r.certs, err |-> r.err, hasRSA |-> ~r.err]
    IN  IF first.err THEN [store |-> s0, err |-> TRUE]
        ELSE LET hasRSA == first.hasRSA \/ hasRSAScan(first.certs)
             IN  IF hasRSA
                 THEN [store |-> [s0 EXCEPT !.DefaultCertificates = first.certs],
                       err |-> FALSE]
                 ELSE IF DefaultCertificate(RSA, g).err
                 THEN [store |-> [s0 EXCEPT !.DefaultCertificates = first.certs],
                       err |-> TRUE]
                 ELSE [store |-> [s0 EXCEPT !.DefaultCertificates =
                                     Append(first.certs, DefaultCertificate(RSA, g).cert)],
                       err |-> FALSE]

-----------------------------------------------------------------------------
(* The certificate hook (tlsConfig.GetCertificate) *)

Hosts == {"a.example.com", "foo.example.com"}

\* A ClientHello, as the certificate hook reads it: the server name, and the
\* signature kinds of the advertised cipher suites, in order.
SigLists == {<<>>, <<"ECDSA">>, <<"RSA", "ECDSA">>}
Hellos == [ServerName : Hosts, Sigs : SigLists]

\* getCertTypeForClientHello: EC when the client advertises an ECDSA suite
\* before any RSA one, RSA otherwise
getCertTypeForClientHello(hello) ==
    IF Len(hello.Sigs) > 0 /\ hello.Sigs[1] = "ECDSA" THEN EC ELSE RSA

\* store.GetBestCertificate: the dynamic certificate registered for the server
\* name (a dynamic certificate is named by its host), or none
GetBestCertificate(st, hello) ==
    IF hello.ServerName \in st.DynamicCerts THEN hello.ServerName ELSE NoCert

\* The loop over store.DefaultCertificates: the index of the certificate
\* returned, 0 for a nil certificate. matching is the variable matchingCert.
RECURSIVE DefaultLoop(_, _, _, _)
DefaultLoop(defaults, preferredType, i, matching) ==
    IF i > Len(defaults) THEN matching
    ELSE LET t == GetCertificateType(defaults[i])
         IN  IF t.err THEN DefaultLoop(defaults, preferredType, i + 1, matching)
             ELSE IF t.type = EC /\ preferredType = EC THEN i
             ELSE IF t.type = RSA
             THEN IF preferredType = RSA THEN i
                  ELSE DefaultLoop(defaults, preferredType, i + 1, i)
             ELSE DefaultLoop(defaults, preferredType, i + 1, matching)

defaultCertificate(defaults, preferredType) ==
    DefaultLoop(defaults, preferredType, 1, 0)

\* m.configs[configName].SniStrict, read when the hook runs; a missing key
\* yields the zero Options
LiveSniStrict(cfgs, configName) ==
    IF configName \in DOMAIN cfgs THEN cfgs[configName].SniStrict ELSE FALSE

\* What the TLSAlpnGetter does for the requested name: the field is nil
\* ("absent"), or it returns no certificate, a certificate, or an error.
AlpnOutcomes == {"absent", "nocert", "cert", "err"}

NoResult == [out |-> "none", idx |-> 0]

\* the hook with the store asked before the provider
GetCertificate_StoreFirst(cfgs, configName, st, hello, alpn) ==
    IF hello.ServerName \in st.DynamicCerts THEN [out |-> "dyn", idx |-> 0]
    ELSE IF alpn = "err" THEN [out |-> "alpnerr", idx |-> 0]
    ELSE IF alpn = "cert" THEN [out |-> "alpn", idx |-> 0]
    ELSE [out |-> "strict", idx |-> 0]

\* The hook's outcome: out is "alpnerr" (the provider's error), "alpn" (its
\* certificate), "dyn" (the store's best certificate), "strict" (the strict SNI
\* error), "default" (default certificate number idx) or "nil" (no certificate
\* and no error).
GetCertificate(cfgs, configName, st, hello, alpn) ==
    LET r == NoResult
    IN  IF alpn = "err" THEN [r EXCEPT !.out = "alpnerr"]
        ELSE IF alpn = "cert" THEN [r EXCEPT !.out = "alpn"]
        ELSE IF GetBestCertificate(st, hello) # NoCert THEN [r EXCEPT !.out = "dyn"]
        ELSE IF LiveSniStrict(cfgs, configName) THEN [r EXCEPT !.out = "strict"]
        ELSE LET i == defaultCertificate(st.DefaultCertificates,
                                         getCertTypeForClientHello(hello))
             IN  [r EXCEPT !.out = IF i = 0 THEN "nil" ELSE "default", !.idx = i]

-----------------------------------------------------------------------------
(* The configuration hook (tlsConfig.GetConfigForClient) *)

TLS_CHACHA20_POLY1305_SHA256 == 4867
TLS_ECDHE_ECDSA_WITH_CHACHA20_POLY1305 == 52393
TLS_ECDHE_RSA_WITH_CHACHA20_POLY1305 == 52392

\* the suites of the model: the three ChaCha20 suites, and two AES suites
\* (TLS_AES_128_GCM_SHA256, TLS_ECDHE_RSA_WITH_AES_128_GCM_SHA256)
Suites == {TLS_CHACHA20_POLY1305_SHA256, TLS_ECDHE_ECDSA_WITH_CHACHA20_POLY1305,
           TLS_ECDHE_RSA_WITH_CHACHA20_POLY1305, 4865, 49199}

isChaChaCipherSuite(cipherSuite) ==
    \/ cipherSuite = TLS_CHACHA20_POLY1305_SHA256
    \/ cipherSuite = TLS_ECDHE_ECDSA_WITH_CHACHA20_POLY1305
    \/ cipherSuite = TLS_ECDHE_RSA_WITH_CHACHA20_POLY1305

\* the first loop: the configured ChaCha20 suites, in order
forceCiphers(cipherSuites) == SelectSeq(cipherSuites, isChaChaCipherSuite)

\* the inner loop of newCipherSuitesLoop for one configured suite: the suite is
\* appended once for every forced suite that precedes its own match
RECURSIVE InnerLoop(_, _, _, _)
InnerLoop(acc, cipherSuite, force, j) ==
    IF j > Len(force) THEN acc
    ELSE IF force[j] = cipherSuite THEN acc
    ELSE InnerLoop(Append(acc, cipherSuite), cipherSuite, force, j + 1)

RECURSIVE newCipherSuitesLoop(_, _, _, _)
newCipherSuitesLoop(acc, cipherSuites, force, i) ==
    IF i > Len(cipherSuites) THEN acc
    ELSE newCipherSuitesLoop(InnerLoop(acc, cipherSuites[i], force, 1),
                             cipherSuites, force, i + 1)

\* CipherSuites of the configuration the hook returns
GetConfigForClient(cipherSuites, clientSuites) ==
    IF /\ Len(cipherSuites) > 0
       /\ Len(clientSuites) > 0
       /\ isChaChaCipherSuite(clientSuites[1])
    THEN newCipherSuitesLoop(forceCiphers(cipherSuites), cipherSuites,
                             forceCiphers(cipherSuites), 1)
    ELSE cipherSuites

-----------------------------------------------------------------------------
(* TLS options and buildTLSConfig *)

\* longest ClientAuth.CAFiles list
MaxCAFiles == 1

\* a slice value: nil, or a list
NilSlice == [nil |-> TRUE, elems |-> <<>>]
Slice(e) == [nil |-> FALSE, elems |-> e]

\* a CA file is named by what reading it yields: PEM certificates, a read
\* error, or content without any certificate
FileKinds == {"pem", "unreadable", "notpem"}

\* the client-auth policies buildTLSConfig knows
ClientAuthTypes == {"NoClientCert", "RequestClientCert", "RequireAnyClientCert",
                    "VerifyClientCertIfGiven", "RequireAndVerifyClientCert"}

\* the lookup tables MinVersion / MaxVersion, CipherSuites and CurveIDs, as far
\* as the model names their keys
VersionIds ==
    [n \in {"VersionTLS12", "VersionTLS13"} |-> IF n = "VersionTLS12" THEN 771 ELSE 772]
CipherSuiteIds ==
    [n \in {"TLS_AES_128_GCM_SHA256", "TLS_CHACHA20_POLY1305_SHA256"} |->
        IF n = "TLS_AES_128_GCM_SHA256" THEN 4865 ELSE TLS_CHACHA20_POLY1305_SHA256]
CurveIDs == [n \in {"CurveP256"} |-> 23]

\* the zero Options value
ZeroOptions ==
    [SniStrict |-> FALSE, CAFiles |-> <<>>, ClientAuthType |-> "",
     MinVersion |-> "", MaxVersion |-> "",
     CipherSuites |-> NilSlice, CurvePreferences |-> NilSlice]

\* *tls.Config: nil, or a configuration; &tls.Config{} is ZeroConfig
NilConfig == [isNil |-> TRUE]
ZeroConfig ==
    [isNil |-> FALSE, NextProtos |-> <<>>, ClientCAs |-> "nil",
     ClientAuth |-> "NoClientCert", PreferServerCipherSuites |-> FALSE,
     MinVersion |-> 0, MaxVersion |-> 0,
     CipherSuites |-> NilSlice, CurvePreferences |-> NilSlice,
     GetConfigForClient |-> FALSE, GetCertificate |-> FALSE]

NoError == "nil"

\* lines 317-334: the error of the first CA file that cannot be used
loadCAFiles(files) ==
    IF \E i \in 1..Len(files) : files[i] # "pem"
    THEN LET i == CHOOSE k \in 1..Len(files) :
                     files[k] # "pem" /\ \A j \in 1..(k - 1) : files[j] = "pem"
         IN  IF files[i] = "unreadable" THEN "read error" ELSE "invalid certificate(s)"
    ELSE NoError

\* lines 375-382 and 389-396: the identifiers of the names, or the first
\* unknown name
lookupAll(names, table) ==
    IF \E i \in 1..Len(names) : names[i] \notin DOMAIN table
    THEN [ids |-> <<>>, ok |-> FALSE]
    ELSE [ids |-> [i \in 1..Len(names) |-> table[names[i]]], ok |-> TRUE]

\* lines 336-357 with the usual policy check replaced by nothing: any policy
\* string is taken as it is
clientAuthError_NoCheck(hasCAs, clientAuthType) == NoError

\* lines 336-357: the error of the client-auth policy, with or without a pool
clientAuthError(hasCAs, clientAuthType) ==
    IF clientAuthType = "" THEN NoError
    ELSE IF ~hasCAs /\ clientAuthType \in {"VerifyClientCertIfGiven",
                                          "RequireAndVerifyClientCert"}
    THEN "CAFiles is required"
    ELSE IF clientAuthType \notin ClientAuthTypes THEN "unknown client auth type"
    ELSE NoError

\* buildTLSConfig(tlsOption): the configuration and the error it returns
buildTLSConfig(tlsOption) ==
    LET c0 == [ZeroConfig EXCEPT !.NextProtos = <<"h2", "http/1.1", "acme-tls/1">>]
        hasCAs == Len(tlsOption.CAFiles) > 0
        c1 == IF hasCAs
              THEN [c0 EXCEPT !.ClientCAs = "pool",
                              !.ClientAuth = "RequireAndVerifyClientCert"]
              ELSE c0
        c2 == IF tlsOption.ClientAuthType # ""
              THEN [c1 EXCEPT !.ClientAuth = tlsOption.ClientAuthType]
              ELSE c1
        c3 == IF tlsOption.MinVersion \in DOMAIN VersionIds
              THEN [c2 EXCEPT !.PreferServerCipherSuites = TRUE,
                              !.MinVersion = VersionIds[tlsOption.MinVersion]]
              ELSE c2
        c4 == IF tlsOption.MaxVersion \in DOMAIN VersionIds
              THEN [c3 EXCEPT !.PreferServerCipherSuites = TRUE,
                              !.MaxVersion = VersionIds[tlsOption.MaxVersion]]
              ELSE c3
        suites == lookupAll(tlsOption.CipherSuites.elems, CipherSuiteIds)
        c5 == IF ~tlsOption.CipherSuites.nil
              THEN [c4 EXCEPT !.CipherSuites = Slice(suites.ids)]
              ELSE c4
        curves == lookupAll(tlsOption.CurvePreferences.elems, CurveIDs)
        c6 == IF ~tlsOption.CurvePreferences.nil
              THEN [c5 EXCEPT !.CurvePreferences = Slice(curves.ids)]
              ELSE c5
        fail(e) == [conf |-> NilConfig, err |-> e]
    IN  IF loadCAFiles(tlsOption.CAFiles) # NoError
        THEN fail(loadCAFiles(tlsOption.CAFiles))
        ELSE IF clientAuthError(hasCAs, tlsOption.ClientAuthType) # NoError
        THEN fail(clientAuthError(hasCAs, tlsOption.ClientAuthType))
        ELSE IF ~tlsOption.CipherSuites.nil /\ ~suites.ok THEN fail("invalid CipherSuite")
        ELSE IF ~tlsOption.CurvePreferences.nil /\ ~curves.ok THEN fail("invalid CurveID")
        ELSE [conf |-> c6, err |-> NoError]

\* config, ok := m.configs[configName], as one record
WithOk(o, ok) ==
    [ok |-> ok, SniStrict |-> o.SniStrict, CAFiles |-> o.CAFiles,
     ClientAuthType |-> o.ClientAuthType, MinVersion |-> o.MinVersion,
     MaxVersion |-> o.MaxVersion, CipherSuites |-> o.CipherSuites,
     CurvePreferences |-> o.CurvePreferences]

\* lines 113-225: both hooks are attached to the configuration
attachHooks(c) == [c EXCEPT !.GetConfigForClient = TRUE, !.GetCertificate = TRUE]

\* lines 95-111 and 227 with the fallback to &tls.Config{} left out
GetResult_NilOnError(resolved) ==
    IF ~resolved.ok THEN [tlsConfig |-> NilConfig, err |-> "unknown TLS options"]
    ELSE [tlsConfig |-> IF buildTLSConfig(resolved).err # NoError THEN NilConfig
                        ELSE attachHooks(buildTLSConfig(resolved).conf),
          err |-> buildTLSConfig(resolved).err]

\* lines 95-111 and 227: what Get returns for the options it resolved
GetResult(resolved) ==
    IF ~resolved.ok
    THEN [tlsConfig |-> attachHooks(ZeroConfig), err |-> "unknown TLS options"]
    ELSE LET b == buildTLSConfig(resolved)
         IN  IF b.err # NoError
             THEN [tlsConfig |-> attachHooks(ZeroConfig), err |-> b.err]
             ELSE [tlsConfig |-> attachHooks(b.conf), err |-> NoError]

-----------------------------------------------------------------------------
(* The Manager: inputs *)

StoreNames == {"default", "web"}
OptionNames == {"default", "mytls"}
\* the threads: h1 performs handshakes (Get and the hooks of the configuration
\* it got), h2 inspects stores (GetStore)
Readers == {"h1", "h2"}
OpsOf(r) == IF r = "h1" THEN {"Get"} ELSE {"GetStore"}

\* the Options the Manager starts with
DefaultTLSOptions == ZeroOptions

Range(f) == {f[x] : x \in DOMAIN f}
EmptyMap == [x \in {} |-> x]

\* A CertAndStores value; good tells whether AppendCertificate can read and
\* parse the certificate
CertAndStores(host, ss, good) == [host |-> host, Stores |-> ss, good |-> good]
Opt(strict) == [ZeroOptions EXCEPT !.SniStrict = strict]
\* Options that buildTLSConfig refuses: verification without any CA file
BadAuthOptions == [ZeroOptions EXCEPT !.ClientAuthType = "RequireAndVerifyClientCert"]
BadStoreDef == StoreDef(<<>>, "Bad")

\* The arguments <<stores, configs, certs>> of the UpdateConfigs calls.
\* stores: none, "default" without default certificate, and "web" with a default
\* certificate that cannot be loaded; configs: the empty map, "default" alone,
\* "default" with "mytls" strict, not strict, or refused by buildTLSConfig; certs: none, a certificate for store
\* "web", an unreadable certificate followed by one that names no store, a
\* certificate for both stores.
Reloads ==
    LET d == [n \in {"default"} |-> EmptyStoreDef]
        dw == [n \in {"default", "web"} |->
                 IF n = "web" THEN BadStoreDef ELSE EmptyStoreDef]
        cd == [n \in {"default", "mytls"} |->
                 IF n = "mytls" THEN BadAuthOptions ELSE DefaultTLSOptions]
        ct == [n \in {"default", "mytls"} |->
                 IF n = "mytls" THEN Opt(TRUE) ELSE DefaultTLSOptions]
        cf == [n \in {"default", "mytls"} |->
                 IF n = "mytls" THEN Opt(FALSE) ELSE DefaultTLSOptions]
        w == <<CertAndStores("a.example.com", <<"web">>, TRUE)>>
        bw == <<CertAndStores("a.example.com", <<"web">>, FALSE),
                CertAndStores("a.example.com", <<>>, TRUE)>>
        both == <<CertAndStores("foo.example.com", <<"default", "web">>, TRUE)>>
    IN  { <<EmptyMap, EmptyMap, <<>> >>,
          <<d, ct, w>>,
          <<dw, cf, bw>>,
          <<d, cd, <<>> >>,
          <<dw, ct, both>>,
          <<EmptyMap, cf, bw>> }

\* default certificate generation during one store build of the Manager:
\* it works, or it fails
MgrGen == {[t \in {RSA, EC} |-> TRUE], [t \in {RSA, EC} |-> FALSE]}
GenMaps == [StoreNames -> MgrGen]

-----------------------------------------------------------------------------
(* The Manager: store objects *)

\* *CertificateStore values are references into heap; reference 0 is nil.
\* Addresses carry no meaning, so after every step the objects are numbered in
\* the order the registry and the threads refer to them, and the objects
\* nothing refers to any more are reclaimed.
HeapIds == 1..(Cardinality(StoreNames) + Cardinality(Readers) + 1)
NoStore == [free |-> TRUE]

NameOrder == <<"default", "web">>
ReaderOrder == <<"h1", "h2">>

Roots(st, loc) ==
    [i \in 1..(Len(NameOrder) + Len(ReaderOrder)) |->
        IF i <= Len(NameOrder)
        THEN IF NameOrder[i] \in DOMAIN st THEN st[NameOrder[i]] ELSE 0
        ELSE loc[ReaderOrder[i - Len(NameOrder)]]]

\* the new number of object id: its rank among the objects referred to
Rank(roots, id) ==
    LET first == CHOOSE i \in 1..Len(roots) :
                    roots[i] = id /\ \A j \in 1..(i - 1) : roots[j] # id
    IN  Cardinality({roots[j] : j \in 1..(first - 1)} \ {0}) + 1

Renumber(h, st, loc) ==
    LET roots == Roots(st, loc)
        live == Range(roots) \ {0}
        rk(id) == IF id = 0 THEN 0 ELSE Rank(roots, id)
    IN  [heap |-> [i \in HeapIds |->
                      IF \E id \in live : rk(id) = i
                      THEN h[CHOOSE id \in live : rk(id) = i]
                      ELSE NoStore],
         stores |-> [n \in DOMAIN st |-> rk(st[n])],
         store |-> [r \in DOMAIN loc |-> rk(loc[r])]]

\* the registry, the objects and the threads' references after a step that
\* leaves them as h, st, loc
Refs(h, st, loc) ==
    LET n == Renumber(h, st, loc)
    IN  /\ heap' = n.heap
        /\ stores' = n.stores
        /\ store' = n.store

FreeIds(h) == {i \in HeapIds : h[i] = NoStore}
NewId(h) == CHOOSE i \in FreeIds(h) : TRUE

\* m.stores[storeName] = id
Put(st, storeName, id) ==
    [n \in DOMAIN st \cup {storeName} |-> IF n = storeName THEN id ELSE st[n]]

\* m.stores = make(map[string]*CertificateStore)
MakeStores_KeepOld(old) == old

MakeStores_KeepDefault(old) == [n \in DOMAIN old \cap {"default"} |-> old[n]]

MakeStores_KeepWeb(old) == [n \in DOMAIN old \cap {"web"} |-> old[n]]

MakeStores(old) == EmptyMap

\* m.lock.Lock() / m.lock.RLock() can proceed
CanLock == ~lock.w /\ lock.r = 0

CanRLock_NoExclusion == TRUE

CanRLock == ~lock.w

\* lines 64-70: conf.Stores of a certificate that names no store becomes
\* ["default"] (the CertAndStores is shared with m.certs)
NormalizeCerts_Untouched(cs) == cs

NormalizeCerts(cs) ==
    [i \in 1..Len(cs) |->
        IF Len(cs[i].Stores) = 0 THEN [cs[i] EXCEPT !.Stores = <<"default">>]
        ELSE cs[i]]

\* Certificate.AppendCertificate for every certificate and store: the hosts of
\* the certificates appended for each store; a certificate that cannot be
\* read is reported and skipped
StoresCertificates(cs) ==
    LET n == NormalizeCerts(cs)
        targets == {nm \in StoreNames :
                      \E i \in 1..Len(n) : n[i].good /\ nm \in Range(n[i].Stores)}
    IN  [nm \in targets |->
            {n[i].host : i \in {k \in 1..Len(n) : n[k].good /\ nm \in Range(n[k].Stores)}}]

-----------------------------------------------------------------------------
(* The Manager: initial state (NewManager) *)

NoCall == [op |-> "none", storeName |-> "", configName |-> ""]
NoConfig == WithOk(ZeroOptions, FALSE)
NoReturn == [tlsConfig |-> NilConfig, err |-> NoError]

MgrInit ==
    /\ configs = [n \in {"default"} |-> DefaultTLSOptions]
    /\ storesConfig = EmptyMap
    /\ certs = <<>>
    /\ stores = EmptyMap
    /\ heap = [i \in HeapIds |-> NoStore]
    /\ lock = [w |-> FALSE, r |-> 0]
    /\ pcw = "idle"
    /\ pc = [r \in Readers |-> "idle"]
    /\ call = [r \in Readers |-> NoCall]
    /\ config = [r \in Readers |-> NoConfig]
    /\ found = [r \in Readers |-> FALSE]
    /\ store = [r \in Readers |-> 0]
    /\ res = [r \in Readers |-> NoResult]
    /\ ret = [r \in Readers |-> NoReturn]
    /\ fatal = FALSE

NotBuilt == [store |-> NoStore, err |-> FALSE]
NoPick == [pref |-> RSA, idx |-> -1]
StoreIdle == tlsStore = EmptyStoreDef /\ built = NotBuilt /\ pick = NoPick

NotCalled == <<-1>>
\* the connections that ask the configuration hook for their configuration
Conns == {"c1", "c2"}
\* the cipher list of a configuration a connection holds: the array its slice
\* points into ("tlsConfig": the array of tlsConfig.CipherSuites; "own": an
\* array of its own), its elements, and the suites of the hello it was made for
NotHeld == [array |-> "none", elems |-> <<>>, hello |-> <<>>]
CipherIdle ==
    /\ base = <<>> /\ helloSuites = <<>> /\ conn = NotCalled
    /\ configured = <<>> /\ held = [c \in Conns |-> NotHeld]

NoHello == [ServerName |-> "", Sigs |-> <<>>]
NoHookArgs == [store |-> NoStore, configs |-> EmptyMap, hello |-> NoHello, alpn |-> "none"]
HookIdle == hookArgs = NoHookArgs /\ hookRes = NoResult

NotBuiltConfig == [conf |-> NilConfig, err |-> "not called"]
OptionIdle == optionArg = ZeroOptions /\ builtConf = NotBuiltConfig

NoView == [names |-> {}]
NoEnv == [input |-> <<>>, gen |-> <<>>]
ReloadIdle == once = NoView /\ env = NoEnv /\ nth = 0

Init == MgrInit /\ StoreIdle /\ CipherIdle /\ HookIdle /\ OptionIdle /\ ReloadIdle

-----------------------------------------------------------------------------
(* UpdateConfigs. It runs under the exclusive lock; its steps are the places  *)
(* where a thread that takes no lock (a hook) can see what it has done so far *)

\* line 44: m.lock.Lock()
UCLock ==
    /\ ~fatal /\ pcw = "idle" /\ CanLock
    /\ lock' = [lock EXCEPT !.w = TRUE]
    /\ pcw' = "uc_assign"
    /\ UNCHANGED <<configs, storesConfig, certs, stores, heap,
                   pc, call, config, found, store, res, fatal>>
    /\ UNCHANGED <<ret, storeVars, cipherVars, hookVars, optionVars, reloadVars>>

\* lines 47-51: the raw configs are recorded, m.stores is a new empty map
UCAssign(storesArg, configsArg, certsArg) ==
    /\ ~fatal /\ pcw = "uc_assign"
    /\ configs' = configsArg
    /\ storesConfig' = storesArg
    /\ certs' = certsArg
    /\ Refs(heap, MakeStores(stores), store)
    /\ pcw' = "uc_build"
    /\ UNCHANGED <<lock, pc, call, config, found, res, fatal>>
    /\ UNCHANGED <<ret, storeVars, cipherVars, hookVars, optionVars, reloadVars>>

\* lines 52-60, for the stores named in todo (a sequence without repetition):
\* each is built, and registered unless its build fails; gs[n] tells which
\* default certificates can be generated while n is built
RECURSIVE BuildStores(_, _, _, _, _)
BuildStores(h, st, todo, defs, gs) ==
    IF todo = <<>> THEN [heap |-> h, stores |-> st]
    ELSE LET b == buildCertificateStore(defs[Head(todo)], gs[Head(todo)])
             id == NewId(h)
         IN  IF b.err THEN BuildStores(h, st, Tail(todo), defs, gs)
             ELSE BuildStores([h EXCEPT ![id] = b.store], Put(st, Head(todo), id),
                              Tail(todo), defs, gs)

\* lines 79-81, for the stores named in todo:
\* m.getStore(storeName).DynamicCerts.Set(certs), where getStore registers a
\* store built from Store{} when the name is not in m.stores
RECURSIVE SetDynamicCerts(_, _, _, _, _)
SetDynamicCerts(h, st, todo, sc, gs) ==
    IF todo = <<>> THEN [heap |-> h, stores |-> st]
    ELSE LET nm == Head(todo)
             id == NewId(h)
         IN  IF nm \in DOMAIN st
             THEN SetDynamicCerts([h EXCEPT ![st[nm]].DynamicCerts = sc[nm]], st,
                                  Tail(todo), sc, gs)
             ELSE SetDynamicCerts(
                      [h EXCEPT ![id] =
                          [buildCertificateStore(EmptyStoreDef, gs[nm]).store
                              EXCEPT !.DynamicCerts = sc[nm]]],
                      Put(st, nm, id), Tail(todo), sc, gs)

\* the names of NameOrder that are in S, in that order
InOrder(S) == SelectSeq(NameOrder, LAMBDA n : n \in S)

\* lines 52-60: the loop over m.storesConfig
UCBuildStores(gs) ==
    /\ ~fatal /\ pcw = "uc_build"
    /\ LET b == BuildStores(heap, stores, InOrder(DOMAIN storesConfig), storesConfig, gs)
       IN  Refs(b.heap, b.stores, store)
    /\ pcw' = "uc_set"
    /\ UNCHANGED <<configs, storesConfig, certs, lock, pc, call, config, found, res, fatal>>
    /\ UNCHANGED <<ret, storeVars, cipherVars, hookVars, optionVars, reloadVars>>

\* lines 62-81: the certificates are grouped by store and set in each store
UCSetCerts(gs) ==
    /\ ~fatal /\ pcw = "uc_set"
    /\ certs' = NormalizeCerts(certs)
    /\ LET sc == StoresCertificates(certs)
           b == SetDynamicCerts(heap, stores, InOrder(DOMAIN sc), sc, gs)
       IN  Refs(b.heap, b.stores, store)
    /\ pcw' = "uc_unlock"
    /\ UNCHANGED <<configs, storesConfig, lock, pc, call, config, found, res, fatal>>
    /\ UNCHANGED <<ret, storeVars, cipherVars, hookVars, optionVars, reloadVars>>

\* line 45 (deferred): m.lock.Unlock()
UCUnlock ==
    /\ ~fatal /\ pcw = "uc_unlock"
    /\ lock' = [lock EXCEPT !.w = FALSE]
    /\ pcw' = "idle"
    /\ UNCHANGED <<configs, storesConfig, certs, stores, heap,
                   pc, call, config, found, store, res, fatal>>
    /\ UNCHANGED <<ret, storeVars, cipherVars, hookVars, optionVars, reloadVars>>

-----------------------------------------------------------------------------
(* Get, GetStore and getStore, run by a thread r *)

\* lines 92 and 240: m.lock.RLock()
GetRLock(r, op, storeName, configName) ==
    /\ ~fatal /\ pc[r] = "idle" /\ CanRLock
    /\ lock' = [lock EXCEPT !.r = @ + 1]
    /\ call' = [call EXCEPT ![r] =
                   [op |-> op, storeName |-> storeName, configName |-> configName]]
    /\ pc' = [pc EXCEPT ![r] = IF op = "Get" THEN "get_cfg" ELSE "gs_check"]
    /\ UNCHANGED <<configs, storesConfig, certs, stores, heap, pcw,
                   config, found, store, res, fatal>>
    /\ UNCHANGED <<ret, storeVars, cipherVars, hookVars, optionVars, reloadVars>>

\* lines 98-102: config, ok := m.configs[configName]
GetResolveConfig(r) ==
    /\ ~fatal /\ pc[r] = "get_cfg"
    /\ config' = [config EXCEPT ![r] =
                     IF call[r].configName \in DOMAIN configs
                     THEN WithOk(configs[call[r].configName], TRUE)
                     ELSE NoConfig]
    /\ pc' = [pc EXCEPT ![r] = "gs_check"]
    /\ UNCHANGED <<configs, storesConfig, certs, stores, heap, lock, pcw,
                   call, found, store, res, fatal>>
    /\ UNCHANGED <<ret, storeVars, cipherVars, hookVars, optionVars, reloadVars>>

\* line 231: _, ok := m.stores[storeName]
GetStoreCheck(r) ==
    /\ ~fatal /\ pc[r] = "gs_check"
    /\ found' = [found EXCEPT ![r] = call[r].storeName \in DOMAIN stores]
    /\ pc' = [pc EXCEPT ![r] = IF call[r].storeName \in DOMAIN stores
                               THEN "gs_ret" ELSE "gs_build"]
    /\ UNCHANGED <<configs, storesConfig, certs, stores, heap, lock, pcw,
                   call, config, store, res, fatal>>
    /\ UNCHANGED <<ret, storeVars, cipherVars, hookVars, optionVars, reloadVars>>

\* line 233: m.stores[storeName], _ = buildCertificateStore(ctx, Store{});
\* the error is dropped and the store returned with it is registered
GetStoreBuild(r, g) ==
    /\ ~fatal /\ pc[r] = "gs_build"
    /\ LET id == NewId(heap)
       IN  Refs([heap EXCEPT ![id] = buildCertificateStore(EmptyStoreDef, g).store],
                Put(stores, call[r].storeName, id), store)
    /\ pc' = [pc EXCEPT ![r] = "gs_ret"]
    /\ UNCHANGED <<configs, storesConfig, certs, lock, pcw,
                   call, config, found, res, fatal>>
    /\ UNCHANGED <<ret, storeVars, cipherVars, hookVars, optionVars, reloadVars>>

\* line 233 while another thread is inside getStore: the map is written while
\* it is read or written elsewhere, which the runtime may detect and abort on
\* ("fatal error: concurrent map writes"); when it does not, GetStoreBuild is
\* what happens
GetStoreRace(r) ==
    /\ ~fatal /\ pc[r] = "gs_build"
    /\ \E o \in Readers \ {r} : pc[o] \in {"gs_check", "gs_build", "gs_ret"}
    /\ fatal' = TRUE
    /\ UNCHANGED <<configs, storesConfig, certs, stores, heap, lock, pcw,
                   pc, call, config, found, store, res>>
    /\ UNCHANGED <<ret, storeVars, cipherVars, hookVars, optionVars, reloadVars>>

\* line 235: return m.stores[storeName]. GetStore then releases the lock
\* (line 241) and returns the store; Get goes on with the store
GetStoreReturn(r) ==
    /\ ~fatal /\ pc[r] = "gs_ret"
    /\ call[r].storeName \in DOMAIN stores
    /\ IF call[r].op = "Get"
       THEN /\ Refs(heap, stores, [store EXCEPT ![r] = stores[call[r].storeName]])
            /\ pc' = [pc EXCEPT ![r] = "get_fin"]
            /\ UNCHANGED <<lock, call, found>>
       ELSE /\ Refs(heap, stores, store)
            /\ pc' = [pc EXCEPT ![r] = "idle"]
            /\ lock' = [lock EXCEPT !.r = @ - 1]
            /\ call' = [call EXCEPT ![r] = NoCall]
            /\ found' = [found EXCEPT ![r] = FALSE]
    /\ UNCHANGED <<configs, storesConfig, certs, pcw, config, res, fatal>>
    /\ UNCHANGED <<ret, storeVars, cipherVars, hookVars, optionVars, reloadVars>>

\* lines 106-227 and 93: the configuration is built, the hooks are attached,
\* the lock is released and the configuration returned
GetFinish(r) ==
    /\ ~fatal /\ pc[r] = "get_fin"
    /\ lock' = [lock EXCEPT !.r = @ - 1]
    /\ pc' = [pc EXCEPT ![r] = "have_cfg"]
    /\ ret' = [ret EXCEPT ![r] = GetResult(config[r])]
    /\ UNCHANGED <<configs, storesConfig, certs, stores, heap, pcw,
                   call, config, found, store, res, fatal>>
    /\ UNCHANGED <<storeVars, cipherVars, hookVars, optionVars, reloadVars>>

\* lines 181-225: the TLS layer calls the certificate hook of the
\* configuration r holds; the hook takes no lock
HookGetCertificate(r, hello, alpn) ==
    /\ ~fatal /\ pc[r] = "have_cfg"
    /\ res' = [res EXCEPT ![r] =
                  GetCertificate(configs, call[r].configName, heap[store[r]], hello, alpn)]
    /\ UNCHANGED <<configs, storesConfig, certs, stores, heap, lock, pcw,
                   pc, call, config, found, store, fatal>>
    /\ UNCHANGED <<ret, storeVars, cipherVars, hookVars, optionVars, reloadVars>>

\* the TLS layer drops the configuration it was given
Release(r) ==
    /\ ~fatal /\ pc[r] = "have_cfg"
    /\ pc' = [pc EXCEPT ![r] = "idle"]
    /\ call' = [call EXCEPT ![r] = NoCall]
    /\ config' = [config EXCEPT ![r] = NoConfig]
    /\ found' = [found EXCEPT ![r] = FALSE]
    /\ res' = [res EXCEPT ![r] = NoResult]
    /\ ret' = [ret EXCEPT ![r] = NoReturn]
    /\ Refs(heap, stores, [store EXCEPT ![r] = 0])
    /\ UNCHANGED <<configs, storesConfig, certs, lock, pcw, fatal>>
    /\ UNCHANGED <<storeVars, cipherVars, hookVars, optionVars, reloadVars>>

Next ==
    \/ UCLock
    \/ \E a \in Reloads : UCAssign(a[1], a[2], a[3])
    \/ \E gs \in GenMaps : UCBuildStores(gs)
    \/ \E gs \in GenMaps : UCSetCerts(gs)
    \/ UCUnlock
    \/ \E r \in Readers : \E op \in OpsOf(r), sn \in StoreNames, cn \in OptionNames :
          GetRLock(r, op, sn, IF op = "Get" THEN cn ELSE "")
    \/ \E r \in Readers : GetResolveConfig(r)
    \/ \E r \in Readers : GetStoreCheck(r)
    \/ \E r \in Readers, g \in MgrGen : GetStoreBuild(r, g)
    \/ \E r \in Readers : GetStoreRace(r)
    \/ \E r \in Readers : GetStoreReturn(r)
    \/ \E r \in Readers : GetFinish(r)
    \/ \E r \in Readers, hello \in Hellos, alpn \in AlpnOutcomes :
          HookGetCertificate(r, hello, alpn)
    \/ \E r \in Readers : Release(r)

Spec == Init /\ [][Next]_vars

-----------------------------------------------------------------------------
(* SpecStore: buildCertificateStore on every Store definition, and the       *)
(* default-certificate loop of the certificate hook on the stores it yields  *)

RECURSIVE SeqsUpTo(_, _)
SeqsUpTo(S, n) ==
    IF n = 0 THEN {<<>>}
    ELSE SeqsUpTo(S, n - 1) \cup
         {Append(q, x) : q \in {p \in SeqsUpTo(S, n - 1) : Len(p) = n - 1}, x \in S}

AllStoreDefs ==
    {StoreDef(l, c) : l \in SeqsUpTo(CertKinds, MaxDefaults), c \in CertKinds \cup {NoCert}}

InitStore ==
    /\ MgrInit /\ CipherIdle /\ HookIdle /\ OptionIdle /\ ReloadIdle
    /\ tlsStore \in AllStoreDefs
    /\ built = NotBuilt
    /\ pick = NoPick

\* buildCertificateStore(ctx, tlsStore)
SBuild(g) ==
    /\ built = NotBuilt
    /\ built' = buildCertificateStore(tlsStore, g)
    /\ UNCHANGED <<tlsStore, pick, mgrVars, cipherVars, hookVars, optionVars, reloadVars>>

\* lines 205-224 on a store the Manager registers: one whose build succeeded
\* (line 59), or the one built from Store{} whatever the error (line 233)
SPick(hello) ==
    /\ built # NotBuilt
    /\ ~built.err \/ tlsStore = EmptyStoreDef
    /\ pick' = [pref |-> getCertTypeForClientHello(hello),
                idx |-> defaultCertificate(built.store.DefaultCertificates,
                                           getCertTypeForClientHello(hello))]
    /\ UNCHANGED <<tlsStore, built, mgrVars, cipherVars, hookVars, optionVars, reloadVars>>

NextStore ==
    \/ \E g \in GenOutcomes : SBuild(g)
    \/ \E hello \in Hellos : SPick(hello)

SpecStore == InitStore /\ [][NextStore]_vars

-----------------------------------------------------------------------------
(* SpecCipher: the configuration hook on every configured cipher suite list  *)

\* the lists of distinct suites
CipherLists ==
    {l \in SeqsUpTo(Suites, MaxCiphers) : \A i, j \in 1..Len(l) : l[i] = l[j] => i = j}

\* what the client advertises: nothing, or up to two suites
ClientLists == SeqsUpTo(Suites, 2)

InitCipher ==
    /\ MgrInit /\ StoreIdle /\ HookIdle /\ OptionIdle /\ ReloadIdle
    /\ base \in CipherLists
    /\ configured = base
    /\ helloSuites = <<>>
    /\ conn = NotCalled
    /\ held = [c \in Conns |-> NotHeld]

\* lines 150-153: the hook takes the reordering branch
Reorders(cipherSuites, clientSuites) ==
    /\ Len(cipherSuites) > 0
    /\ Len(clientSuites) > 0
    /\ isChaChaCipherSuite(clientSuites[1])

\* line 148: tlsConfig.Clone() copies the fields, so the CipherSuites slice of
\* the copy points into the array of tlsConfig.CipherSuites
CloneArray == "tlsConfig"

\* line 155: forceCiphers := []uint16{} is a new array, in which the reordered
\* list is built (lines 160-171)
forceCiphersArray_InPlace == "tlsConfig"

forceCiphersArray == "own"

\* lines 147-179: the hook works on a clone of tlsConfig and returns it to
\* connection c
HookGetConfigForClient(c, clientSuites) ==
    /\ helloSuites' = clientSuites
    /\ conn' = GetConfigForClient(base, clientSuites)
    /\ held' = [held EXCEPT ![c] =
                   [array |-> IF Reorders(base, clientSuites)
                              THEN forceCiphersArray ELSE CloneArray,
                    elems |-> GetConfigForClient(base, clientSuites),
                    hello |-> clientSuites]]
    /\ UNCHANGED <<base, configured, mgrVars, storeVars, hookVars, optionVars, reloadVars>>

NextCipher == \E cs \in ClientLists : HookGetConfigForClient("c1", cs)

SpecCipher == InitCipher /\ [][NextCipher]_vars

-----------------------------------------------------------------------------
(* SpecReload: whole UpdateConfigs calls, repeated with the same arguments,   *)
(* and GetStore calls that make stores in between                             *)

\* how many times in a row UpdateConfigs is called with the same arguments
MaxRepeat == 2

\* what Get and GetStore let a caller observe of the registry: the store
\* names, the options, and for every store its dynamic certificates and the
\* key types of its default certificates
View(h, st, cfgs) ==
    [names |-> DOMAIN st,
     options |-> cfgs,
     dyn |-> [n \in DOMAIN st |-> h[st[n]].DynamicCerts],
     types |-> [n \in DOMAIN st |->
                  [i \in 1..Len(h[st[n]].DefaultCertificates) |->
                      h[st[n]].DefaultCertificates[i].kind]]]

\* lines 44-81 as one step: the registry after UpdateConfigs(storesArg,
\* configsArg, certsArg); gs1 tells what can be generated in the build loop,
\* gs2 what can be generated when getStore makes a store for a certificate
Reload(storesArg, configsArg, certsArg, gs1, gs2) ==
    /\ ~fatal /\ pcw = "idle" /\ CanLock
    /\ configs' = configsArg
    /\ storesConfig' = storesArg
    /\ certs' = NormalizeCerts(certsArg)
    /\ LET n == Renumber(heap, MakeStores(stores), store)
           b == BuildStores(n.heap, n.stores, InOrder(DOMAIN storesArg), storesArg, gs1)
           sc == StoresCertificates(certsArg)
           c == SetDynamicCerts(b.heap, b.stores, InOrder(DOMAIN sc), sc, gs2)
       IN  Refs(c.heap, c.stores, store)
    /\ UNCHANGED <<lock, pcw, pc, call, config, found, res, ret, fatal>>
    /\ UNCHANGED <<storeVars, cipherVars, hookVars, optionVars>>

\* UpdateConfigs with arguments a
UpdateConfigs(a, gs1, gs2) ==
    /\ Reload(a[1], a[2], a[3], gs1, gs2)
    /\ once' = View(heap', stores', configs')
    /\ env' = [input |-> a, gen |-> <<gs1, gs2>>]
    /\ nth' = 1

\* UpdateConfigs once more with the arguments of the call before, the
\* certificates being the values the caller passed before (whose Stores line 69
\* has filled in) or equal new ones, in the same environment
UpdateConfigsAgain(sameCerts) ==
    /\ nth \in 1..(MaxRepeat - 1)
    /\ Reload(env.input[1], env.input[2],
              IF sameCerts THEN certs ELSE env.input[3], env.gen[1], env.gen[2])
    /\ nth' = nth + 1
    /\ UNCHANGED <<once, env>>

\* lines 239-244 as one step, for a name that is not registered
LazyGetStore(storeName, g) ==
    /\ ~fatal /\ pcw = "idle" /\ CanRLock
    /\ nth > 0
    /\ storeName \notin DOMAIN stores
    /\ LET id == NewId(heap)
       IN  Refs([heap EXCEPT ![id] = buildCertificateStore(EmptyStoreDef, g).store],
                Put(stores, storeName, id), store)
    /\ UNCHANGED <<configs, storesConfig, certs, lock, pcw, pc, call, config,
                   found, res, ret, fatal>>
    /\ UNCHANGED <<storeVars, cipherVars, hookVars, optionVars, reloadVars>>

NextReload ==
    \/ \E a \in Reloads, gs1 \in GenMaps, gs2 \in GenMaps : UpdateConfigs(a, gs1, gs2)
    \/ \E sameCerts \in BOOLEAN : UpdateConfigsAgain(sameCerts)
    \/ \E storeName \in StoreNames, g \in MgrGen : LazyGetStore(storeName, g)

SpecReload == Init /\ [][NextReload]_vars

-----------------------------------------------------------------------------
(* SpecHook: the certificate hook on every store the Manager can register,    *)
(* every state of the named options, every hello and provider outcome         *)

\* the stores the Manager registers: those whose build succeeded and the one
\* getStore makes, with any dynamic certificates
HookStores ==
    {[buildCertificateStore(def, g).store EXCEPT !.DynamicCerts = d] :
        def \in {x \in AllStoreDefs :
                   x = EmptyStoreDef \/ \A y \in GenOutcomes : ~buildCertificateStore(x, y).err},
        g \in GenOutcomes, d \in SUBSET Hosts}

\* m.configs when the hook runs: the options it names are gone, or there with
\* or without sniStrict
HookConfigs == {EmptyMap} \cup {[n \in {"mytls"} |-> Opt(b)] : b \in BOOLEAN}

InitHook ==
    /\ MgrInit /\ StoreIdle /\ CipherIdle /\ OptionIdle /\ ReloadIdle
    /\ hookArgs \in {[NoHookArgs EXCEPT !.store = st, !.configs = c] :
                        st \in HookStores, c \in HookConfigs}
    /\ hookRes = NoResult

\* lines 181-225: the TLS layer calls the hook of a configuration that
\* Get(storeName, "mytls") returned
CallGetCertificate(hello, alpn) ==
    /\ hookArgs' = [hookArgs EXCEPT !.hello = hello, !.alpn = alpn]
    /\ hookRes' = GetCertificate(hookArgs.configs, "mytls", hookArgs.store, hello, alpn)
    /\ UNCHANGED <<mgrVars, storeVars, cipherVars, optionVars, reloadVars>>

NextHook == \E hello \in Hellos, alpn \in AlpnOutcomes : CallGetCertificate(hello, alpn)

SpecHook == InitHook /\ [][NextHook]_vars

-----------------------------------------------------------------------------
(* SpecClone: connections that get their configuration from the hook and     *)
(* then change its cipher list                                                *)

\* what the clients of the two connections advertise
CloneHellos == {<<>>, <<4865>>, <<TLS_CHACHA20_POLY1305_SHA256>>}

\* the suite a connection writes into its cipher list
WrittenSuite == TLS_ECDHE_RSA_WITH_CHACHA20_POLY1305

\* the owner of connection c stores a suite in the first element of
\* config.CipherSuites: the write goes to the array the slice points into, so
\* every slice over that array shows it
ConnWrite(c) ==
    /\ held[c].array # "none" /\ Len(held[c].elems) > 0
    /\ IF held[c].array = "tlsConfig"
       THEN /\ base' = [base EXCEPT ![1] = WrittenSuite]
            /\ held' = [d \in Conns |->
                          IF held[d].array = "tlsConfig"
                          THEN [held[d] EXCEPT !.elems[1] = WrittenSuite]
                          ELSE held[d]]
       ELSE /\ base' = base
            /\ held' = [held EXCEPT ![c].elems[1] = WrittenSuite]
    /\ UNCHANGED <<helloSuites, conn, configured, mgrVars, storeVars, hookVars,
                   optionVars, reloadVars>>

\* the owner of connection c assigns a new list to config.CipherSuites
ConnAssign(c) ==
    /\ held[c].array # "none"
    /\ held' = [held EXCEPT ![c].array = "own", ![c].elems = <<WrittenSuite>>]
    /\ UNCHANGED <<base, helloSuites, conn, configured, mgrVars, storeVars, hookVars,
                   optionVars, reloadVars>>

NextClone ==
    \/ \E c \in Conns, cs \in CloneHellos : HookGetConfigForClient(c, cs)
    \/ \E c \in Conns : ConnWrite(c)
    \/ \E c \in Conns : ConnAssign(c)

SpecClone == InitCipher /\ [][NextClone]_vars

-----------------------------------------------------------------------------
(* SpecOptions: buildTLSConfig on every Options value                         *)

AllOptions ==
    [SniStrict : {FALSE},
     CAFiles : SeqsUpTo(FileKinds, MaxCAFiles),
     ClientAuthType : {""} \cup ClientAuthTypes \cup {"Bogus"},
     MinVersion : {"", "VersionTLS12", "Bogus"},
     MaxVersion : {"", "VersionTLS13"},
     CipherSuites : {NilSlice, Slice(<<>>), Slice(<<"TLS_AES_128_GCM_SHA256">>),
                     Slice(<<"Bogus">>)},
     CurvePreferences : {NilSlice, Slice(<<"CurveP256">>), Slice(<<"Bogus">>)}]

InitOptions ==
    /\ MgrInit /\ StoreIdle /\ CipherIdle /\ HookIdle /\ ReloadIdle
    /\ optionArg \in AllOptions
    /\ builtConf = NotBuiltConfig

\* buildTLSConfig(tlsOption)
BuildTLSConfig ==
    /\ builtConf = NotBuiltConfig
    /\ builtConf' = buildTLSConfig(optionArg)
    /\ UNCHANGED <<optionArg, mgrVars, storeVars, cipherVars, hookVars, reloadVars>>

NextOptions == BuildTLSConfig

SpecOptions == InitOptions /\ [][NextOptions]_vars

-----------------------------------------------------------------------------
(* Properties *)

InGet(r) == pc[r] \in {"get_cfg", "gs_check", "gs_build", "gs_ret", "get_fin"}

\* the hook of r ran to the strict-SNI decision: the provider returned no
\* certificate and the store had no match
ReachedSniDecision(r) ==
    pc[r] = "have_cfg" /\ res[r].out \in {"strict", "default", "nil"}

\* C1: the strict-SNI decision of a hook follows the sniStrict value the named
\* options had when Get returned (the hook fails exactly when that value was
\* true), whatever UpdateConfigs did to the options afterwards.
C1_SniStrictAsOfGet ==
    \A r \in Readers :
        (ReachedSniDecision(r) /\ config[r].ok) =>
            ((res[r].out = "strict") <=> config[r].SniStrict)

\* C2: every step that writes the registry (m.stores, m.configs, the raw
\* configs) is taken with the lock held in exclusive mode.
RegistryWritten ==
    \/ stores' # stores
    \/ configs' # configs
    \/ storesConfig' # storesConfig
    \/ certs' # certs
C2_WritesUnderExclusiveLock == [][RegistryWritten => (lock.w /\ lock.r = 0)]_vars

\* C3: while a Get is between RLock and RUnlock no UpdateConfigs is part-way
\* through its rebuild, the options Get read are still those of the registry,
\* and the store it resolved has all the dynamic certificates the registry's
\* certs assign to that store name.
HalfBuilt == pcw \in {"uc_build", "uc_set"}
ResolvedOptions(cfgs, name) ==
    IF name \in DOMAIN cfgs THEN WithOk(cfgs[name], TRUE) ELSE NoConfig
AssignedCerts(cs, name) ==
    IF name \in DOMAIN StoresCertificates(cs) THEN StoresCertificates(cs)[name] ELSE {}
C3_GetSeesWholeRegistry ==
    \A r \in Readers :
        InGet(r) =>
            /\ ~HalfBuilt
            /\ (call[r].op = "Get" /\ pc[r] # "get_cfg") =>
                   config[r] = ResolvedOptions(configs, call[r].configName)
            /\ pc[r] = "get_fin" =>
                   heap[store[r]].DynamicCerts = AssignedCerts(certs, call[r].storeName)

\* a Get has resolved strict options and a store with a dynamic certificate,
\* both set by the same UpdateConfigs, and still holds the shared lock
C3_Witness ==
    \E r \in Readers :
        /\ pc[r] = "get_fin" /\ lock.r > 0 /\ pcw = "idle"
        /\ config[r].ok /\ config[r].SniStrict
        /\ heap[store[r]].DynamicCerts # {}

\* C4: no step changes the dynamic certificates or the default certificates of
\* the store captured by a configuration that a handshake thread holds.
C4_CapturedStoreUnchanged ==
    [][\A r \in Readers :
          (pc[r] = "have_cfg" /\ pc'[r] = "have_cfg") =>
              heap'[store'[r]] = heap[store[r]]]_vars

\* a thread holds a configuration whose store UpdateConfigs has since replaced
\* in the registry by another object with other dynamic certificates
C4_Witness ==
    \E r \in Readers :
        /\ pc[r] = "have_cfg" /\ pcw = "idle"
        /\ call[r].storeName \in DOMAIN stores
        /\ stores[call[r].storeName] # store[r]
        /\ heap[stores[call[r].storeName]].DynamicCerts # heap[store[r]].DynamicCerts

\* C5: for a client whose first suite is a ChaCha20 suite the hook returns the
\* configured ChaCha20 suites in order followed by the other configured suites
\* in order, each once; for a client whose first suite is not, the configured
\* list.
NotChaCha(c) == ~isChaChaCipherSuite(c)
C5_ChaChaFirst ==
    (conn # NotCalled /\ Len(helloSuites) > 0) =>
        IF isChaChaCipherSuite(helloSuites[1])
        THEN Len(base) > 0 =>
                 conn = SelectSeq(base, isChaChaCipherSuite) \o SelectSeq(base, NotChaCha)
        ELSE conn = base

\* C6: when the hook reaches the strict-SNI decision it fails if the options
\* Get resolved have sniStrict, and otherwise returns one of the default
\* certificates of the store.
C6_StrictFailsElseDefault ==
    \A r \in Readers :
        (ReachedSniDecision(r) /\ config[r].ok) =>
            IF config[r].SniStrict
            THEN res[r].out = "strict"
            ELSE /\ res[r].out = "default"
                 /\ res[r].idx \in 1..Len(heap[store[r]].DefaultCertificates)

\* the default list holds a certificate detected as being of this type
HasType(defaults, type) ==
    \E i \in 1..Len(defaults) :
        /\ ~GetCertificateType(defaults[i]).err
        /\ GetCertificateType(defaults[i]).type = type
BuiltOk == built # NotBuilt /\ ~built.err

\* C7 as stated: every successfully constructed store has an RSA and an EC
\* default certificate.
C7_RSAAndEC ==
    BuiltOk => /\ HasType(built.store.DefaultCertificates, RSA)
               /\ HasType(built.store.DefaultCertificates, EC)

\* C7 amended: every successfully constructed store has an RSA default
\* certificate; it has an EC one exactly when an EC certificate is among the
\* configured defaults that were loaded, or when none was configured.
ConfiguredEC ==
    IF Len(tlsStore.DefaultCertificates) > 0
    THEN \E i \in 1..Len(tlsStore.DefaultCertificates) : tlsStore.DefaultCertificates[i] = EC
    ELSE tlsStore.DefaultCertificate \in {EC, NoCert}
C7_AlwaysRSA ==
    BuiltOk => /\ HasType(built.store.DefaultCertificates, RSA)
               /\ HasType(built.store.DefaultCertificates, EC) <=> ConfiguredEC

\* a store configured with one EC certificate got a generated RSA one appended
C7_Witness ==
    /\ BuiltOk
    /\ tlsStore.DefaultCertificates = <<EC>>
    /\ built.store.DefaultCertificates = <<Cert(EC, FALSE), Cert(RSA, TRUE)>>

\* C8: the fallback returns the first default of the hinted type, else the
\* first default of the other type, else nothing.
FirstOfType(defaults, type) ==
    IF HasType(defaults, type)
    THEN CHOOSE i \in 1..Len(defaults) :
            /\ HasType(<<defaults[i]>>, type)
            /\ \A j \in 1..(i - 1) : ~HasType(<<defaults[j]>>, type)
    ELSE 0
OtherType(type) == IF type = RSA THEN EC ELSE RSA
C8_FirstDefaultOfType ==
    pick # NoPick =>
        LET defaults == built.store.DefaultCertificates
        IN  pick.idx = IF HasType(defaults, pick.pref)
                       THEN FirstOfType(defaults, pick.pref)
                       ELSE FirstOfType(defaults, OtherType(pick.pref))

\* the store getStore made for r because the name was not in the registry
MadeStore(r) ==
    IF pc[r] = "gs_ret" THEN heap[stores[call[r].storeName]] ELSE heap[store[r]]
HasMadeStore(r) == pc[r] \in {"gs_ret", "get_fin", "have_cfg"} /\ ~found[r]
GeneratedPair == <<Cert(RSA, TRUE), Cert(EC, TRUE)>>

\* C9 as stated: the store made for an unknown name has no default
\* certificates, and the hook against it, when it does not fail, returns no
\* certificate.
C9_MadeStoreEmpty ==
    \A r \in Readers :
        HasMadeStore(r) =>
            /\ MadeStore(r).DefaultCertificates = <<>>
            /\ ReachedSniDecision(r) => res[r].out \in {"strict", "nil"}

\* C9 amended: the store made for an unknown name has no dynamic certificate,
\* and its defaults are a generated RSA and a generated EC certificate, or
\* nothing when generation failed; the hook against it never returns a dynamic
\* certificate, returns a default only when there is one, and returns no
\* certificate only when there is none.
C9_MadeStoreGenerated ==
    \A r \in Readers :
        HasMadeStore(r) =>
            /\ MadeStore(r).DynamicCerts = {}
            /\ MadeStore(r).DefaultCertificates \in {GeneratedPair, <<>>}
            /\ res[r].out # "dyn"
            /\ res[r].out = "default" => MadeStore(r).DefaultCertificates = GeneratedPair
            /\ res[r].out = "nil" => MadeStore(r).DefaultCertificates = <<>>

\* the hook returned a generated default of a store made for an unknown name
C9_Witness ==
    \E r \in Readers :
        /\ HasMadeStore(r) /\ pc[r] = "have_cfg"
        /\ MadeStore(r).DefaultCertificates = GeneratedPair
        /\ res[r].out = "default"

\* C10: the options registry always has an entry named "default".
C10_DefaultOptionsPresent == "default" \in DOMAIN configs

\* the stores a certificate assignment is for, and the hosts of the readable
\* certificates assigned to store n
Targets(c) == IF c.Stores = <<>> THEN {"default"} ELSE Range(c.Stores)
HostsFor(cs, n) ==
    {cs[i].host : i \in {k \in 1..Len(cs) : cs[k].good /\ n \in Targets(cs[k])}}
TargetNames(cs) == {n \in StoreNames : HostsFor(cs, n) # {}}

\* C11: a store of storesConfig whose build failed (it is not in m.stores when
\* the build loop ends) is not in the registry when UpdateConfigs ends, and
\* one whose build succeeded is.
C11_FailedStoreAbsent ==
    [][(pcw = "uc_set" /\ pcw' = "uc_unlock") =>
          \A n \in DOMAIN storesConfig : (n \in DOMAIN stores') <=> (n \in DOMAIN stores)]_vars

\* C12: when an UpdateConfigs call ends, the raw configs and the options are
\* those of the call, every registered store is named by the call's store
\* definitions or certificates, is an object no earlier Get resolved, and has
\* exactly the dynamic certificates the call assigns to its name.
C12_FullReplace ==
    pcw = "uc_unlock" =>
        /\ \E a \in Reloads :
              storesConfig = a[1] /\ configs = a[2] /\ certs = NormalizeCerts(a[3])
        /\ \A n \in DOMAIN stores :
              /\ n \in DOMAIN storesConfig \cup TargetNames(certs)
              /\ heap[stores[n]].DynamicCerts = HostsFor(certs, n)
              /\ \A r \in Readers : store[r] # stores[n]

\* an UpdateConfigs call ends while a handshake holds a store that a Get made
\* for a name the call does not define: the name is gone from the registry
C12_Witness ==
    /\ pcw = "uc_unlock" /\ storesConfig # EmptyMap
    /\ \E r \in Readers :
          /\ pc[r] = "have_cfg" /\ ~found[r]
          /\ call[r].storeName \notin DOMAIN stores

\* C16: when the certificates have been grouped and set, a host is in the
\* dynamic certificates of a registered store exactly when a readable
\* certificate for that host declares the store, or declares no store and the
\* store is "default"; every store so named is registered.
C16_CertsInDeclaredStores ==
    [][(pcw = "uc_set" /\ pcw' = "uc_unlock") =>
          \A n \in StoreNames :
              /\ HostsFor(certs, n) # {} => n \in DOMAIN stores'
              /\ n \in DOMAIN stores' => heap'[stores'[n]].DynamicCerts = HostsFor(certs, n)]_vars

\* an unreadable certificate for "web" was skipped, and the certificate after
\* it, which names no store, is in store "default" and not in store "web"
C16_Witness ==
    /\ pcw = "uc_unlock" /\ Len(certs) = 2 /\ ~certs[1].good /\ certs[2].good
    /\ "default" \in DOMAIN stores
    /\ certs[2].host \in heap[stores["default"]].DynamicCerts
    /\ "web" \in DOMAIN stores => heap[stores["web"]].DynamicCerts = {}

\* C15: the configuration Get returned is never nil and has both hooks; when
\* the options name was unknown or buildTLSConfig refused the options, it is
\* the zero configuration (with the hooks) and comes with an error; and no step
\* taken while a Get is in progress changes the options registry.
GetFailed(r) == ~config[r].ok \/ buildTLSConfig(config[r]).err # NoError
C15_GetNeverNil ==
    /\ [](\A r \in Readers :
            pc[r] = "have_cfg" =>
                /\ ~ret[r].tlsConfig.isNil
                /\ ret[r].tlsConfig.GetConfigForClient
                /\ ret[r].tlsConfig.GetCertificate
                /\ GetFailed(r) => /\ ret[r].err # NoError
                                   /\ ret[r].tlsConfig = attachHooks(ZeroConfig)
                /\ ~GetFailed(r) => ret[r].err = NoError)
    /\ [][(\E r \in Readers : InGet(r)) => configs' = configs]_vars

\* Get returned for an options name that an UpdateConfigs had removed
C15_Witness ==
    \E r \in Readers :
        /\ pc[r] = "have_cfg" /\ ~config[r].ok
        /\ call[r].configName \notin DOMAIN configs
        /\ ret[r].err = "unknown TLS options"
        /\ ret[r].tlsConfig = attachHooks(ZeroConfig)

\* C13: a call of UpdateConfigs that repeats the call before it, in the same
\* environment, leaves the registry showing what it showed after that call:
\* the same store names, options, dynamic certificates and default key types,
\* whatever GetStore made in between.
C13_TwiceIsOnce ==
    [][(nth >= 1 /\ nth' > nth) => View(heap', stores', configs') = once]_vars

\* the second of two identical calls has ended; it registered a store with a
\* dynamic certificate and dropped a store that a GetStore had made
C13_Witness ==
    /\ nth = 2
    /\ \E n \in once.names : once.dyn[n] # {}
    /\ once.names # StoreNames
    /\ View(heap, stores, configs) = once

\* C14: when the provider is set and returns a certificate the hook returns
\* that certificate, whatever the store holds and whatever sniStrict is; the
\* hook gives an answer that comes from the store (a dynamic certificate, the
\* strict-SNI error, a default or nothing) only when the provider is absent or
\* returned neither a certificate nor an error.
FromStore == {"dyn", "strict", "default", "nil"}
C14_ProviderFirst ==
    hookArgs.alpn # "none" =>
        /\ hookArgs.alpn = "cert" <=> hookRes.out = "alpn"
        /\ hookArgs.alpn = "err" <=> hookRes.out = "alpnerr"
        /\ hookRes.out \in FromStore <=> hookArgs.alpn \in {"absent", "nocert"}

\* the provider's certificate was returned although the store has a dynamic
\* certificate for the name and default certificates, and sniStrict is set
C14_Witness ==
    /\ hookArgs.alpn = "cert" /\ hookRes.out = "alpn"
    /\ hookArgs.hello.ServerName \in hookArgs.store.DynamicCerts
    /\ Len(hookArgs.store.DefaultCertificates) > 0
    /\ LiveSniStrict(hookArgs.configs, "mytls")

\* C17: a store built without error from a definition that has neither a list
\* of default certificates nor a single one has a generated RSA and a
\* generated EC certificate among its defaults.
C17_GeneratedRSAAndEC ==
    (BuiltOk /\ tlsStore = EmptyStoreDef) =>
        /\ \E i \in 1..Len(built.store.DefaultCertificates) :
              built.store.DefaultCertificates[i] = Cert(RSA, TRUE)
        /\ \E i \in 1..Len(built.store.DefaultCertificates) :
              built.store.DefaultCertificates[i] = Cert(EC, TRUE)

\* a store was built from the empty definition and has two defaults
C17_Witness ==
    /\ BuiltOk /\ tlsStore = EmptyStoreDef
    /\ Len(built.store.DefaultCertificates) = 2

\* C18 as stated: no step, be it a hook call or a change a connection makes to
\* the cipher list of the configuration it got, changes the cipher list of the
\* base configuration (it stays the configured list) or the configuration of
\* another connection.
C18_CopiesIndependent ==
    [][/\ base' = configured
       /\ Cardinality({c \in Conns : held'[c] # held[c]}) <= 1]_vars

\* C18 amended: the base cipher list changes only by a write through a
\* configuration that the hook returned without reordering; such a
\* configuration's list is the base list itself, and only such a configuration
\* shares it; a change to the list of a reordered configuration changes
\* neither the base list nor another connection's configuration.
Unreordered(c) == held[c].array # "none" /\ ~Reorders(configured, held[c].hello)
C18_OnlyUnreorderedShares ==
    [][/\ base' # base =>
             \E c \in Conns : Unreordered(c) /\ held[c].array = "tlsConfig"
       /\ \A c \in Conns :
             held[c].array = "tlsConfig" => (Unreordered(c) /\ held[c].elems = base)
       /\ \A c \in Conns :
             (held[c].array = "own" /\ held'[c].elems # held[c].elems) =>
                 /\ base' = base
                 /\ \A d \in Conns \ {c} : held'[d] = held[d]]_vars

\* a connection changed the list of a reordered configuration, the base list
\* is the configured one, and the other connection holds the base list itself
C18_Witness ==
    /\ held["c1"].array = "own" /\ Reorders(configured, held["c1"].hello)
    /\ held["c1"].elems # GetConfigForClient(configured, held["c1"].hello)
    /\ base = configured
    /\ held["c2"].array = "tlsConfig" /\ held["c2"].elems = base

\* C20: the hook returns a non-empty cipher list whenever the configured list
\* is non-empty, and the configured list itself when that list holds no
\* ChaCha20 suite.
C20_NeverEmpty ==
    (conn # NotCalled /\ Len(base) > 0) =>
        /\ Len(conn) > 0
        /\ SelectSeq(base, isChaChaCipherSuite) = <<>> => conn = base

BuiltTLS == builtConf # NotBuiltConfig
Verifying == {"VerifyClientCertIfGiven", "RequireAndVerifyClientCert"}
AnchorsUsable == \A i \in 1..Len(optionArg.CAFiles) : optionArg.CAFiles[i] = "pem"
\* the policy has the anchors it needs: at least one usable CA file when it
\* verifies, nothing otherwise
HasNeededAnchors ==
    optionArg.ClientAuthType \in Verifying =>
        (Len(optionArg.CAFiles) > 0 /\ AnchorsUsable)
NamesKnown ==
    /\ \A i \in 1..Len(optionArg.CipherSuites.elems) :
          optionArg.CipherSuites.elems[i] \in DOMAIN CipherSuiteIds
    /\ \A i \in 1..Len(optionArg.CurvePreferences.elems) :
          optionArg.CurvePreferences.elems[i] \in DOMAIN CurveIDs

\* C19 as stated: the build fails for a verifying policy without CA file and
\* for an unknown non-empty policy; for a known policy with the anchors it
\* needs it succeeds with the client-auth mode the policy names.
C19_PolicyDecidesBuild ==
    BuiltTLS =>
        /\ (optionArg.ClientAuthType \in Verifying /\ optionArg.CAFiles = <<>>) =>
               builtConf.err # NoError
        /\ (optionArg.ClientAuthType # "" /\ optionArg.ClientAuthType \notin ClientAuthTypes) =>
               builtConf.err # NoError
        /\ (optionArg.ClientAuthType \in ClientAuthTypes /\ HasNeededAnchors) =>
               /\ builtConf.err = NoError
               /\ builtConf.conf.ClientAuth = optionArg.ClientAuthType

\* C19 amended: the build fails for a verifying policy without CA file, for an
\* unknown non-empty policy, and for any policy when a listed CA file cannot be
\* read or holds no certificate; for a known policy it succeeds, with the mode
\* the policy names, exactly when every listed CA file is usable, a verifying
\* policy has at least one, and the cipher suite and curve names are known.
C19_PolicyAndInputsDecideBuild ==
    BuiltTLS =>
        /\ (optionArg.ClientAuthType \in Verifying /\ optionArg.CAFiles = <<>>) =>
               builtConf.err # NoError
        /\ (optionArg.ClientAuthType # "" /\ optionArg.ClientAuthType \notin ClientAuthTypes) =>
               builtConf.err # NoError
        /\ ~AnchorsUsable => builtConf.err # NoError
        /\ optionArg.ClientAuthType \in ClientAuthTypes =>
               /\ builtConf.err = NoError <=>
                      (AnchorsUsable /\ HasNeededAnchors /\ NamesKnown)
               /\ builtConf.err = NoError =>
                      builtConf.conf.ClientAuth = optionArg.ClientAuthType

\* a policy that asks for no certificate was built with a CA file: the mode is
\* the policy's, not the one the CA files alone would give
C19_Witness ==
    /\ BuiltTLS /\ builtConf.err = NoError
    /\ optionArg.ClientAuthType = "NoClientCert" /\ optionArg.CAFiles = <<"pem">>
    /\ builtConf.conf.ClientAuth = "NoClientCert" /\ builtConf.conf.ClientCAs = "pool"

====
